---- MODULE Spec2Model ----
(***************************************************************************)
(* A model of sclib/asyncio.py: the asynchronous Soundcloud client         *)
(* (SoundcloudAPI.resolve / get_tracks / get_credentials), the playlist    *)
(* completion (Playlist.clean_attributes, __aiter__), the client-id        *)
(* discovery (fetch_soundcloud_client_id) and the stream download          *)
(* (Track.write_mp3_to).                                                   *)
(*                                                                         *)
(* Coroutines run on one asyncio event loop: the code between two awaits   *)
(* of a network fetch is atomic, so every action below is the code of one  *)
(* coroutine from one suspension point to the next.                        *)
(***************************************************************************)
EXTENDS Integers, Sequences, FiniteSets, TLC

VARIABLES
    client_id,      \* SoundcloudAPI.client_id: None or the token
    discoveries,    \* history: how many times fetch_soundcloud_client_id was started
    writes,         \* history: how many times line 55 assigned client_id
    pc,             \* pc[t]: where coroutine t is suspended
    op,             \* op[t]: the top-level call coroutine t runs
    exc,            \* exc[t]: the exception coroutine t ended with, or "none"
    ret,            \* ret[t]: the value coroutine t returned
    reqs,           \* history: reqs[t] is the number of chunk requests t issued
    found_ready,    \* history: t's clean_attributes call returned at "if self.ready"
    track_ids,      \* track_ids[t]: the argument of t's running get_tracks call
    tasks,          \* tasks[t]: the chunk tasks of t's running get_tracks call
    holes,          \* history: a lookup of t answered fewer records than ids asked
    track_objects,  \* track_objects[t]: local of t's clean_attributes call
    tpl,            \* tpl[t]: the playlist t's clean_attributes call works on
    tracks,         \* tracks[p]: Playlist.tracks
    ready,          \* ready[p]: Playlist.ready
    client,         \* client[p]: Playlist.client is bound
    declared,       \* history: declared[p] is tracks[p] at construction
    catalog,        \* catalog[t]: the JSON object the catalog answered to t's resolve
    \* fetch_soundcloud_client_id
    d_pc,           \* where the discovery is suspended
    script_urls,    \* script_urls: for each url found in the page, the text it serves
    results,        \* the get_resource tasks of line 27: "pending", "ok" or "failed",
                    \* the body fetched, and nth, the rank at which the task finished
    script_text,    \* local script_text of line 28
    d_ret,          \* what fetch_soundcloud_client_id returned
    \* Track.write_mp3_to
    s_pc,           \* where write_mp3_to is suspended
    artwork_url,    \* Track.artwork_url is set
    file_mode,      \* how the caller opened file
    file,           \* the bytes of file
    pos,            \* the position of file
    stream_url,     \* local stream_url: NoValue until line 113 has assigned it
    manifest,       \* track_bytes.splitlines()
    chunks,         \* local chunks
    next,           \* the index in chunks of the segment being fetched
    events,         \* history: the seeks, fetches, writes and the tagging, in order
    s_exc,          \* the exception write_mp3_to ended with
    diagnostic      \* the message of line 140 was printed

clientVars == << client_id, discoveries, writes, pc, op, exc, ret, reqs, found_ready, track_ids,
                 tasks, holes, track_objects, tpl, tracks, ready, client, declared,
                 catalog >>

discoveryVars == << d_pc, script_urls, results, script_text, d_ret >>

streamVars == << s_pc, artwork_url, file_mode, file, pos, stream_url, manifest, chunks,
                 next, events, s_exc, diagnostic >>

vars == << clientVars, discoveryVars, streamVars >>

----------------------------------------------------------------------------
(* Bounds of the model. *)

\* The longest id list passed to get_tracks.
MaxLen == 5

\* The longest entry list of a playlist.
MaxEntries == 3

\* The longest entry list of a playlist resolved by two coroutines at once.
MaxShared == 1

\* Playlist.RESOLVE_THRESHOLD, 100 in the source (line 171) and the chunk size of
\* the spec's batch lookup; scaled down so that lists of MaxLen ids span three chunks.
RESOLVE_THRESHOLD == 2

\* The most script urls a page embeds.
MaxScripts == 2

\* The longest text a script url serves.
MaxText == 2

\* The most lines of a stream manifest.
MaxLines == 3

\* Track ids of the catalog.
Ids == {1, 2, 3}

\* The coroutines scheduled on the event loop.
Tasks == {1, 2}

\* Playlist objects: 0 is held by the caller, t is the one resolve of coroutine t builds.
Playlists == {0} \cup Tasks

None == "None"
Token == "client_id"
NoValue == "NoValue"

----------------------------------------------------------------------------
(* Sequences. *)

Range(s) == {s[i] : i \in DOMAIN s}

SeqsUpTo(S, n) == UNION {[1..k -> S] : k \in 0..n}

Count(s, x) == Cardinality({i \in DOMAIN s : s[i] = x})

RECURSIVE Flatten(_)
\* itertools.chain.from_iterable over a list of lists
Flatten(ss) == IF ss = << >> THEN << >> ELSE Head(ss) \o Flatten(Tail(ss))

\* list.index: the first position of x in s (ValueError when absent: guarded by the callers)
Index(s, x) == CHOOSE i \in DOMAIN s : s[i] = x /\ \A j \in 1..(i-1) : s[j] # x

Min(a, b) == IF a < b THEN a ELSE b

CeilDiv(n, d) == (n + d - 1) \div d

----------------------------------------------------------------------------
(* Records of the catalog and Track objects. A dict of the remote JSON has obj = 0; *)
(* a Track object built from it has obj > 0, the identity of the object.            *)

Dict(i, titled) == [id |-> i, title |-> titled, obj |-> 0]

Entries == {Dict(i, b) : i \in Ids, b \in BOOLEAN}

\* Track(obj=d, client=...): the n-th object built by this call
Track(d, n) == [id |-> d.id, title |-> TRUE, obj |-> n]

IsMaterialized(e) == e.obj > 0

----------------------------------------------------------------------------
(* SoundcloudAPI.get_tracks *)

\* The size of one request of sync.SoundcloudAPI._format_get_tracks_urls: the
\* spec's "chunks of at most 100", the same threshold as the playlist's.
ChunkSize == RESOLVE_THRESHOLD

RECURSIVE Chunks(_)
\* _format_get_tracks_urls(track_ids): one url per consecutive chunk of the ids
Chunks(ids) ==
    IF ids = << >> THEN << >>
    ELSE LET k == Min(ChunkSize, Len(ids))
         IN  << SubSeq(ids, 1, k) >> \o Chunks(SubSeq(ids, k + 1, Len(ids)))

\* loop.create_task(get_obj_from(url)) for every url: the tasks, none finished
\* (nth: the task was the nth of the call to finish, 0 while it runs)
CreateTasks(ids) ==
    [k \in 1..Len(Chunks(ids)) |->
        [ids |-> Chunks(ids)[k], state |-> "pending", ok |-> TRUE, items |-> << >>,
         nth |-> 0]]

\* What the catalog may answer to a lookup of the id set of a chunk: the records
\* of some of the ids asked for, in any order (an id the catalog does not know is
\* left out; an id asked for twice may come once or twice).
Responses(chunk) ==
    {[k \in DOMAIN r |-> Dict(r[k], TRUE)] :
        r \in {q \in SeqsUpTo(Range(chunk), Len(chunk)) :
                 \A i \in Range(chunk) : Count(q, i) <= Count(chunk, i)}}

\* A get_tracks that forgets line 102 and returns the answers as they were chained
Unsorted(trs, ids) == trs

\* sorted(tracks, key=lambda x: track_ids.index(x['id'])): a stable sort
SortByIndex(trs, ids) ==
    LET Bucket(k) == LET Test(x) == Index(ids, x.id) = k IN SelectSeq(trs, Test)
    IN  Flatten([k \in 1..Len(ids) |-> Bucket(k)])

\* The ids of a list of records
IdsOf(trs) == [k \in DOMAIN trs |-> trs[k].id]

\* The answers of a finished gather, in task order
GatherItems(ts) == Flatten([k \in DOMAIN ts |-> ts[k].items])

\* A get_tracks that skips the answers that are False instead of chaining them
AnswerNeverFails(ts) == FALSE

\* line 101: chain.from_iterable raises TypeError when an answer is False
AnswerFails(ts) == \E k \in DOMAIN ts : ~ts[k].ok

\* A lookup has a hole when the records answered are not one per id asked
HasHole(trs, ids) == \E i \in Ids : Count(IdsOf(trs), i) # Count(ids, i)

ListValue(v) == [kind |-> "list", val |-> v]
NoReturn == [kind |-> NoValue, val |-> << >>]
ReturnNone == [kind |-> None, val |-> << >>]

\* get_tracks, lines 94-100: one task per url, then await asyncio.gather
SpawnChunkTasks(t, ids) ==
    /\ tasks' = [tasks EXCEPT ![t] = CreateTasks(ids)]
    /\ reqs' = [reqs EXCEPT ![t] = @ + Len(Chunks(ids))]
    /\ pc' = [pc EXCEPT ![t] = "gather"]

\* get_tracks from its first line to its first await: the credentials are fetched
\* when the client holds none (lines 91-92), else the chunk tasks are started
EnterGetTracks(t, ids) ==
    /\ track_ids' = [track_ids EXCEPT ![t] = ids]
    /\ IF client_id = None
       THEN /\ discoveries' = discoveries + 1
            /\ reqs' = reqs
            /\ pc' = [pc EXCEPT ![t] = "credentials_get_tracks"]
            /\ tasks' = tasks
       ELSE /\ SpawnChunkTasks(t, ids)
            /\ discoveries' = discoveries

----------------------------------------------------------------------------
(* Playlist.clean_attributes *)

RECURSIVE PopCompleted(_, _)
\* lines 181-182: the leading entries that carry a title become Track objects
PopCompleted(trs, objs) ==
    IF trs # << >> /\ Head(trs).title
    THEN PopCompleted(Tail(trs), Append(objs, Track(Head(trs), Len(objs) + 1)))
    ELSE [tracks |-> trs, objs |-> objs]

RECURSIVE FillBatchEarly(_, _)
\* A line 186 that flushes the batch one id short of the threshold
FillBatchEarly(trs, inc) ==
    IF trs = << >> THEN [tracks |-> trs, ids |-> inc, call |-> FALSE]
    ELSE LET inc2 == Append(inc, Head(trs).id)
             trs2 == Tail(trs)
         IN  IF Len(inc2) = RESOLVE_THRESHOLD - 1 \/ trs2 = << >>
             THEN [tracks |-> trs2, ids |-> inc2, call |-> TRUE]
             ELSE FillBatchEarly(trs2, inc2)

RECURSIVE FillBatch(_, _)
\* lines 184-186: ids are popped into incomplete_track_ids until the threshold is
\* reached or no entry is left; call says that the body of the "if" is entered
FillBatch(trs, inc) ==
    IF trs = << >> THEN [tracks |-> trs, ids |-> inc, call |-> FALSE]
    ELSE LET inc2 == Append(inc, Head(trs).id)
             trs2 == Tail(trs)
         IN  IF Len(inc2) = RESOLVE_THRESHOLD \/ trs2 = << >>
             THEN [tracks |-> trs2, ids |-> inc2, call |-> TRUE]
             ELSE FillBatch(trs2, inc2)

\* "track not in self.tracks" of line 194. sync.Track defines no __eq__ of its own
\* in the spec's reading (identity/equality of the object): the same object.
TrackIn(track, trs) == \E k \in DOMAIN trs : trs[k] = track

RECURSIVE AppendMissingById(_, _)
\* A final loop that compares the tracks by their id
AppendMissingById(trs, objs) ==
    IF objs = << >> THEN trs
    ELSE AppendMissingById(IF \E k \in DOMAIN trs : trs[k].id = Head(objs).id
                           THEN trs ELSE Append(trs, Head(objs)),
                           Tail(objs))

RECURSIVE AppendMissing(_, _)
\* lines 193-195
AppendMissing(trs, objs) ==
    IF objs = << >> THEN trs
    ELSE AppendMissing(IF TrackIn(Head(objs), trs) THEN trs ELSE Append(trs, Head(objs)),
                       Tail(objs))

\* line 190: [Track(obj=t, client=self.client) for t in new_tracks], after objs
NewTracks(objs, new_tracks) ==
    objs \o [k \in DOMAIN new_tracks |-> Track(new_tracks[k], Len(objs) + k)]

\* What the caller of clean_attributes does with its return: resolve returns the
\* playlist (line 78), __aiter__ yields self.tracks (lines 199-200)
AfterClean(t, trs) ==
    /\ pc' = [pc EXCEPT ![t] = "returned"]
    /\ ret' = [ret EXCEPT ![t] =
                 CASE op'[t] = "resolve" -> [kind |-> "Playlist", val |-> trs]
                   [] op'[t] = "aiter" -> ListValue(trs)
                   [] OTHER -> ReturnNone]

\* line 187: "if not self.client"
NoClient(p) == ~client'[p]

\* The loop of lines 184-191 from its head, with self.tracks = trs, track_objects =
\* objs and incomplete_track_ids empty, to the next await or to the return
ContinueClean(t, p, trs, objs) ==
    LET b == FillBatch(trs, << >>)
    IN  /\ track_objects' = [track_objects EXCEPT ![t] = objs]
        /\ IF ~b.call
           THEN /\ tracks' = [tracks EXCEPT ![p] = AppendMissing(b.tracks, objs)]
                /\ AfterClean(t, AppendMissing(b.tracks, objs))
                /\ UNCHANGED << track_ids, tasks, reqs, discoveries >>
           ELSE IF NoClient(p)
           THEN /\ tracks' = [tracks EXCEPT ![p] = b.tracks]
                /\ AfterClean(t, b.tracks)
                /\ UNCHANGED << track_ids, tasks, reqs, discoveries >>
           ELSE /\ tracks' = [tracks EXCEPT ![p] = b.tracks]
                /\ ret' = ret
                /\ EnterGetTracks(t, b.ids)

\* A clean_attributes without the test of line 174
NeverReady(isReady) == FALSE

\* line 174: "if self.ready"
AlreadyReady(isReady) == isReady

\* clean_attributes on playlist p (ready flag isReady, entries trs) from its first
\* line to its first await or its return
EnterClean(t, p, isReady, trs) ==
    /\ tpl' = [tpl EXCEPT ![t] = p]
    /\ IF AlreadyReady(isReady)
       THEN /\ found_ready' = [found_ready EXCEPT ![t] = TRUE]
            /\ ready' = [ready EXCEPT ![p] = isReady]
            /\ tracks' = [tracks EXCEPT ![p] = trs]
            /\ AfterClean(t, trs)
            /\ UNCHANGED << track_objects, track_ids, tasks, reqs, discoveries >>
       ELSE /\ found_ready' = found_ready
            /\ ready' = [ready EXCEPT ![p] = TRUE]
            /\ LET c == PopCompleted(trs, << >>)
               IN  ContinueClean(t, p, c.tracks, c.objs)

----------------------------------------------------------------------------
(* The coroutines. *)

\* An exception leaves the coroutine: nothing in this module catches it
Raise(t, e) ==
    /\ pc' = [pc EXCEPT ![t] = "raised"]
    /\ exc' = [exc EXCEPT ![t] = e]

\* await client.get_tracks(*ids), called by the user with at most n ids
CallGetTracks(t, n) ==
    /\ UNCHANGED << discoveryVars, streamVars >>
    /\ pc[t] = "idle"
    /\ op' = [op EXCEPT ![t] = "get_tracks"]
    /\ \E ids \in SeqsUpTo(Ids, n) : EnterGetTracks(t, ids)
    /\ UNCHANGED << client_id, writes, exc, ret, found_ready, holes, track_objects, tpl,
                    tracks, ready, client, declared, catalog >>

NumDone(ts) == Cardinality({k \in DOMAIN ts : ts[k].state # "pending"})

\* get_obj_from(url) of chunk task k ends (lines 41-47): the parsed answer, or
\* False when the fetch or the parse raised
ChunkReturn(t, k) ==
    /\ UNCHANGED << discoveryVars, streamVars >>
    /\ pc[t] = "gather"
    /\ k \in DOMAIN tasks[t]
    /\ tasks[t][k].state = "pending"
    /\ \/ \E r \in Responses(tasks[t][k].ids) :
            tasks' = [tasks EXCEPT ![t][k] =
                        [ids |-> @.ids, state |-> "done", ok |-> TRUE, items |-> r,
                         nth |-> NumDone(tasks[t]) + 1]]
       \/ tasks' = [tasks EXCEPT ![t][k] =
                        [ids |-> @.ids, state |-> "done", ok |-> FALSE, items |-> << >>,
                         nth |-> NumDone(tasks[t]) + 1]]
    /\ UNCHANGED << client_id, writes, discoveries, pc, op, exc, ret, reqs, found_ready,
                    track_ids, holes, track_objects, tpl, tracks, ready, client,
                    declared, catalog >>

\* asyncio.gather returns (line 100): lines 101-103, then the caller's code up to
\* its next await. chain.from_iterable raises TypeError on a False answer.
GatherReturn(t) ==
    /\ UNCHANGED << discoveryVars, streamVars >>
    /\ pc[t] = "gather"
    /\ \A k \in DOMAIN tasks[t] : tasks[t][k].state = "done"
    /\ UNCHANGED << client_id, writes, op, found_ready, tpl, ready, client, declared, catalog >>
    /\ IF AnswerFails(tasks[t])
       THEN /\ Raise(t, "TypeError")
            /\ UNCHANGED << ret, reqs, discoveries, track_ids, tasks, holes,
                            track_objects, tracks >>
       ELSE LET new == SortByIndex(GatherItems(tasks[t]), track_ids[t])
            IN  /\ holes' = [holes EXCEPT ![t] = @ \/ HasHole(new, track_ids[t])]
                /\ exc' = exc
                /\ IF op[t] = "get_tracks"
                   THEN /\ pc' = [pc EXCEPT ![t] = "returned"]
                        /\ ret' = [ret EXCEPT ![t] = ListValue(new)]
                        /\ UNCHANGED << reqs, discoveries, track_ids, tasks,
                                        track_objects, tracks >>
                   ELSE ContinueClean(t, tpl[t], tracks[tpl[t]],
                                      NewTracks(track_objects[t], new))

\* A get_credentials without the test of line 56
TokenNeverMissing(found) == FALSE

\* line 56: "if self.client_id is None"
TokenMissing(found) == found = None

\* await self.get_credentials() ends (lines 53-61), then the caller's code up to
\* its next await: fetch_soundcloud_client_id raised, or it returned the token or
\* None, which line 55 assigns
GetCredentialsReturn(t) ==
    /\ UNCHANGED << discoveryVars, streamVars >>
    /\ pc[t] \in {"credentials_get_tracks", "credentials_resolve"}
    /\ UNCHANGED << discoveries, op, ret, found_ready, track_ids, holes, track_objects,
                    tpl, tracks, ready, client, declared, catalog >>
    /\ \/ \E found \in {Token, None} :
            /\ client_id' = found
            /\ writes' = writes + 1
            /\ IF TokenMissing(found)
               THEN /\ Raise(t, "RuntimeError")
                    /\ UNCHANGED << tasks, reqs >>
               ELSE /\ exc' = exc
                    /\ IF pc[t] = "credentials_get_tracks"
                       THEN SpawnChunkTasks(t, track_ids[t])
                       ELSE /\ pc' = [pc EXCEPT ![t] = "track_id"]
                            /\ UNCHANGED << tasks, reqs >>
       \/ /\ UNCHANGED << client_id, writes >>
          /\ Raise(t, "ClientError")
          /\ UNCHANGED << tasks, reqs >>

\* await Playlist(obj=obj, client=c).clean_attributes(), called by the user on a
\* playlist built from a catalog object: the constructor, then clean_attributes
CallCleanNewPlaylist(t) ==
    /\ UNCHANGED << discoveryVars, streamVars >>
    /\ pc[t] = "idle"
    /\ op' = [op EXCEPT ![t] = "clean_attributes"]
    /\ \E trs \in SeqsUpTo(Entries, MaxEntries), c \in BOOLEAN :
          /\ client' = [client EXCEPT ![t] = c]
          /\ declared' = [declared EXCEPT ![t] = trs]
          /\ EnterClean(t, t, FALSE, trs)
    /\ UNCHANGED << client_id, writes, exc, holes, catalog >>

----------------------------------------------------------------------------
(* The state before any call. *)

NoCatalog == [kind |-> None, tracks |-> << >>]

\* No discovery and no download runs
NoDiscovery ==
    /\ d_pc = "idle"
    /\ script_urls = << >>
    /\ results = << >>
    /\ script_text = << >>
    /\ d_ret = NoValue

NoDownload ==
    /\ s_pc = "idle"
    /\ artwork_url = FALSE
    /\ file_mode = "wb+"
    /\ file = << >>
    /\ pos = 0
    /\ stream_url = NoValue
    /\ manifest = << >>
    /\ chunks = << >>
    /\ next = 0
    /\ events = << >>
    /\ s_exc = None
    /\ diagnostic = FALSE

InitCoroutines ==
    /\ discoveries = 0
    /\ writes = 0
    /\ pc = [t \in Tasks |-> "idle"]
    /\ op = [t \in Tasks |-> None]
    /\ exc = [t \in Tasks |-> None]
    /\ ret = [t \in Tasks |-> NoReturn]
    /\ reqs = [t \in Tasks |-> 0]
    /\ found_ready = [t \in Tasks |-> FALSE]
    /\ track_ids = [t \in Tasks |-> << >>]
    /\ tasks = [t \in Tasks |-> << >>]
    /\ holes = [t \in Tasks |-> FALSE]
    /\ track_objects = [t \in Tasks |-> << >>]
    /\ tpl = [t \in Tasks |-> 0]
    /\ catalog = [t \in Tasks |-> NoCatalog]

NoPlaylists ==
    /\ tracks = [p \in Playlists |-> << >>]
    /\ ready = [p \in Playlists |-> FALSE]
    /\ client = [p \in Playlists |-> FALSE]
    /\ declared = [p \in Playlists |-> << >>]

----------------------------------------------------------------------------
(* Completion of one playlist the caller holds, by two coroutines. *)

\* await playlist.clean_attributes(), called by the user on playlist 0
CallCleanAttributes(t) ==
    /\ UNCHANGED << discoveryVars, streamVars >>
    /\ pc[t] = "idle"
    /\ op' = [op EXCEPT ![t] = "clean_attributes"]
    /\ UNCHANGED << client, declared >>
    /\ EnterClean(t, 0, ready[0], tracks[0])
    /\ UNCHANGED << client_id, writes, exc, holes, catalog >>

\* async for track in playlist (lines 197-200), on playlist 0
CallAiter(t) ==
    /\ UNCHANGED << discoveryVars, streamVars >>
    /\ pc[t] = "idle"
    /\ op' = [op EXCEPT ![t] = "aiter"]
    /\ UNCHANGED << client, declared >>
    /\ EnterClean(t, 0, ready[0], tracks[0])
    /\ UNCHANGED << client_id, writes, exc, holes, catalog >>

\* Playlist(obj=obj, client=c): the entries of the catalog object, ready unset
InitComplete ==
    /\ client_id \in {None, Token}
    /\ InitCoroutines
    /\ NoDiscovery
    /\ NoDownload
    /\ \E trs \in SeqsUpTo(Entries, MaxEntries), c \in BOOLEAN :
          /\ tracks = [p \in Playlists |-> IF p = 0 THEN trs ELSE << >>]
          /\ declared = [p \in Playlists |-> IF p = 0 THEN trs ELSE << >>]
          /\ client = [p \in Playlists |-> p = 0 /\ c]
    /\ ready = [p \in Playlists |-> FALSE]

NextComplete ==
    \E t \in Tasks :
        \/ CallCleanAttributes(t)
        \/ CallAiter(t)
        \/ GetCredentialsReturn(t)
        \/ \E k \in 1..MaxEntries : ChunkReturn(t, k)
        \/ GatherReturn(t)

SpecComplete == InitComplete /\ [][NextComplete]_vars

----------------------------------------------------------------------------
(* resolve, by two coroutines on one client. *)

\* The objects the catalog may hold for a url, with playlists of at most n entries:
\* obj[0] of line 71
Catalogs(n) ==
    {[kind |-> k, tracks |-> << >>] : k \in {"track", "user"}}
    \cup {[kind |-> k, tracks |-> trs] :
            k \in {"playlist", "system-playlist"}, trs \in SeqsUpTo(Entries, n)}

\* await client.resolve(url), called by the user: lines 65-67 up to the first await
CallResolve(t) ==
    /\ UNCHANGED << discoveryVars, streamVars >>
    /\ pc[t] = "idle"
    /\ op' = [op EXCEPT ![t] = "resolve"]
    /\ IF client_id = None
       THEN /\ discoveries' = discoveries + 1
            /\ pc' = [pc EXCEPT ![t] = "credentials_resolve"]
       ELSE /\ discoveries' = discoveries
            /\ pc' = [pc EXCEPT ![t] = "track_id"]
    /\ UNCHANGED << client_id, writes, exc, ret, reqs, found_ready, track_ids, tasks, holes,
                    track_objects, tpl, tracks, ready, client, declared, catalog >>

\* await self.get_track_id(url) ends (lines 81-87): the id, or an exception (the
\* fetch fails, or the page has no such meta tag); then get_obj_from is awaited
TrackIdReturn(t) ==
    /\ UNCHANGED << discoveryVars, streamVars >>
    /\ pc[t] = "track_id"
    /\ \/ /\ pc' = [pc EXCEPT ![t] = "obj"]
          /\ exc' = exc
       \/ \E e \in {"ClientError", "TypeError"} : Raise(t, e)
    /\ UNCHANGED << client_id, writes, discoveries, op, ret, reqs, found_ready, track_ids,
                    tasks, holes, track_objects, tpl, tracks, ready, client, declared,
                    catalog >>

\* await get_obj_from(full_url) ends: lines 69-78 up to the next await. The answer
\* is False or an empty list, or the list that holds the catalog's object (a
\* playlist of at most n entries).
ObjReturn(t, n) ==
    /\ UNCHANGED << discoveryVars, streamVars >>
    /\ pc[t] = "obj"
    /\ UNCHANGED << client_id, writes, op, holes >>
    /\ \/ /\ Raise(t, "ValueError")
          /\ UNCHANGED << discoveries, ret, reqs, found_ready, track_ids, tasks,
                          track_objects, tpl, tracks, ready, client, declared, catalog >>
       \/ \E obj \in Catalogs(n) :
            /\ catalog' = [catalog EXCEPT ![t] = obj]
            /\ IF obj.kind = "track"
               THEN /\ pc' = [pc EXCEPT ![t] = "returned"]
                    /\ ret' = [ret EXCEPT ![t] = [kind |-> "Track", val |-> << >>]]
                    /\ UNCHANGED << discoveries, exc, reqs, found_ready, track_ids,
                                    tasks, track_objects, tpl, tracks, ready, client,
                                    declared >>
               ELSE IF obj.kind \in {"playlist", "system-playlist"}
               THEN /\ client' = [client EXCEPT ![t] = TRUE]
                    /\ declared' = [declared EXCEPT ![t] = obj.tracks]
                    /\ exc' = exc
                    /\ EnterClean(t, t, FALSE, obj.tracks)
               ELSE /\ pc' = [pc EXCEPT ![t] = "returned"]
                    /\ ret' = [ret EXCEPT ![t] = ReturnNone]
                    /\ UNCHANGED << discoveries, exc, reqs, found_ready, track_ids,
                                    tasks, track_objects, tpl, tracks, ready, client,
                                    declared >>

InitResolve ==
    /\ client_id \in {None, Token}
    /\ InitCoroutines
    /\ NoPlaylists
    /\ NoDiscovery
    /\ NoDownload

NextResolve ==
    \E t \in Tasks :
        \/ CallResolve(t)
        \/ CallGetTracks(t, MaxShared)
        \/ GetCredentialsReturn(t)
        \/ TrackIdReturn(t)
        \/ ObjReturn(t, MaxShared)
        \/ \E k \in 1..MaxShared : ChunkReturn(t, k)
        \/ GatherReturn(t)

SpecResolve == InitResolve /\ [][NextResolve]_vars

----------------------------------------------------------------------------
(* One coroutine: it calls get_tracks, completes a new playlist, or resolves a url. *)

InitLookup ==
    /\ client_id \in {None, Token}
    /\ InitCoroutines
    /\ NoPlaylists
    /\ NoDiscovery
    /\ NoDownload

NextLookup ==
    \/ CallGetTracks(1, MaxLen)
    \/ CallCleanNewPlaylist(1)
    \/ CallResolve(1)
    \/ TrackIdReturn(1)
    \/ ObjReturn(1, MaxEntries)
    \/ GetCredentialsReturn(1)
    \/ \E k \in 1..MaxLen : ChunkReturn(1, k)
    \/ GatherReturn(1)

SpecLookup == InitLookup /\ [][NextLookup]_vars

----------------------------------------------------------------------------
(* fetch_soundcloud_client_id *)

\* The characters of a script: the client id is written "c" "i"
Alphabet == {"c", "i"}

ScriptTexts == SeqsUpTo(Alphabet, MaxText)

\* util.find_client_id(script_text): the pattern match of spec 4.2 step 5
find_client_id(text) ==
    IF \E k \in 1..(Len(text) - 1) : text[k] = "c" /\ text[k + 1] = "i"
    THEN Token ELSE None

\* The positions of rs in the order in which the fetches finished
ByCompletion(rs) == [n \in DOMAIN rs |-> CHOOSE k \in DOMAIN rs : rs[k].nth = n]

\* A join of the bodies in the order in which the fetches finished
JoinAsCompleted(rs) == Flatten([n \in DOMAIN rs |-> rs[ByCompletion(rs)[n]].body])

\* line 28: "".join([r.decode() for r in results]); asyncio.gather returns the
\* results in the order of the awaitables it was given
JoinResults(rs) == Flatten([k \in DOMAIN rs |-> rs[k].body])

AllFetched(rs) == \A k \in DOMAIN rs : rs[k].state = "ok"

\* fetch_soundcloud_client_id is called: a url is chosen, the page is awaited
CallFetchClientId ==
    /\ UNCHANGED << clientVars, streamVars >>
    /\ d_pc = "idle"
    /\ d_pc' = "page"
    /\ UNCHANGED << script_urls, results, script_text, d_ret >>

\* line 25 ends: the fetch raises, or the page embeds some script urls (lines 26-27:
\* one get_resource per url, then await asyncio.gather)
PageReturn ==
    /\ UNCHANGED << clientVars, streamVars >>
    /\ d_pc = "page"
    /\ \/ /\ d_pc' = "raised"
          /\ UNCHANGED << script_urls, results, script_text, d_ret >>
       \/ \E urls \in SeqsUpTo(ScriptTexts, MaxScripts) :
            /\ script_urls' = urls
            /\ results' = [k \in DOMAIN urls |->
                              [state |-> "pending", nth |-> 0, body |-> << >>]]
            /\ d_pc' = "scripts"
            /\ UNCHANGED << script_text, d_ret >>

\* get_resource(u) of script k ends. asyncio.gather passes the first exception to
\* the coroutine that awaits it; the other fetches keep running.
ScriptReturn(k) ==
    /\ UNCHANGED << clientVars, streamVars >>
    /\ k \in DOMAIN results
    /\ results[k].state = "pending"
    /\ \/ /\ results' = [results EXCEPT ![k] =
                            [state |-> "ok", nth |-> NumDone(results) + 1,
                             body |-> script_urls[k]]]
          /\ d_pc' = d_pc
       \/ /\ results' = [results EXCEPT ![k] =
                            [state |-> "failed", nth |-> NumDone(results) + 1,
                             body |-> << >>]]
          /\ d_pc' = IF d_pc = "scripts" THEN "raised" ELSE d_pc
    /\ UNCHANGED << script_urls, script_text, d_ret >>

\* asyncio.gather returns (line 27): lines 28-29
ScriptsGathered ==
    /\ UNCHANGED << clientVars, streamVars >>
    /\ d_pc = "scripts"
    /\ AllFetched(results)
    /\ script_text' = JoinResults(results)
    /\ d_ret' = find_client_id(JoinResults(results))
    /\ d_pc' = "done"
    /\ UNCHANGED << script_urls, results >>

InitDiscovery ==
    /\ client_id = None
    /\ InitCoroutines
    /\ NoPlaylists
    /\ NoDiscovery
    /\ NoDownload

NextDiscovery ==
    \/ CallFetchClientId
    \/ PageReturn
    \/ \E k \in 1..MaxScripts : ScriptReturn(k)
    \/ ScriptsGathered

SpecDiscovery == InitDiscovery /\ [][NextDiscovery]_vars

----------------------------------------------------------------------------
(* Track.write_mp3_to *)

\* The lines of a manifest: an empty line, comments, and urls with and without the
\* comment marker after their first character
Lines == {<< >>, << "#" >>, << "#", "a" >>, << "a" >>, << "a", "#" >>}

\* A line that keeps every line, comments included
AnyLine(line) == TRUE

\* line 118: "not chunk.startswith(b'#')"
IsSegmentLine(line) == line = << >> \/ Head(line) # "#"

RECURSIVE SegmentLines(_)
\* lines 116-119: the lines that are no comment, in the order of the file
SegmentLines(lines) ==
    IF lines = << >> THEN << >>
    ELSE IF IsSegmentLine(Head(lines))
         THEN << Head(lines) >> \o SegmentLines(Tail(lines))
         ELSE SegmentLines(Tail(lines))

\* The bytes the server holds at a segment url: the url names them
Body(url) == << "<" >> \o url \o << ">" >>

\* file.write(bytes) at position at: the new content of the file
WriteAt(content, at, bytes) ==
    SubSeq(content, 1, at) \o bytes
        \o SubSeq(content, at + Len(bytes) + 1, Len(content))

\* How the caller may have opened the file: read/write binary, text, read-only
\* binary, or closed since
FileModes == {"wb+", "w+", "rb", "closed"}

\* The except clause of lines 139-142: TypeError and ValueError print the message
\* about the mode of the file, and every exception leaves write_mp3_to
RaiseFromWrite(e) ==
    /\ s_pc' = "raised"
    /\ s_exc' = e
    /\ diagnostic' = (e \in {"TypeError", "ValueError"})

\* An event of the download: what was done, and the url it was done for
Ev(e, url) == [e |-> e, url |-> url]

\* A seek that leaves the position where it is
SeekIgnored(at, offset) == at

\* file.seek(offset) on a file at position at: the new position
Seek(at, offset) == offset

\* lines 128-138 from the end of the segment loop, the file being at position at:
\* the position is reset, then the artwork is awaited when the track has one, else
\* the tags are written at once
AfterSegments(evs, at) ==
    /\ pos' = Seek(at, 0)
    /\ IF artwork_url
       THEN /\ s_pc' = "artwork"
            /\ events' = evs \o << Ev("seek", << >>), Ev("fetch_artwork", << >>) >>
       ELSE /\ s_pc' = "done"
            /\ events' = evs \o << Ev("seek", << >>), Ev("write_track_id3", << >>) >>
    /\ UNCHANGED << s_exc, diagnostic >>

\* The loop of line 120 at segment i of cs, the file being at position at:
\* get_resource is awaited; an empty url is refused by the http client before any
\* request (aiohttp.InvalidURL, a ValueError)
FetchSegment(cs, i, evs, at) ==
    /\ next' = i
    /\ IF i > Len(cs) THEN AfterSegments(evs, at)
       ELSE IF cs[i] = << >>
       THEN /\ RaiseFromWrite("ValueError")
            /\ events' = evs
            /\ pos' = at
       ELSE /\ s_pc' = "segment"
            /\ events' = Append(evs, Ev("fetch", cs[i]))
            /\ pos' = at
            /\ UNCHANGED << s_exc, diagnostic >>

\* await track.write_mp3_to(file), called by the user: line 112, then
\* get_stream_url awaits get_obj_from (lines 146-147). seek raises ValueError on a
\* closed file.
CallWriteMp3 ==
    /\ UNCHANGED << clientVars, discoveryVars >>
    /\ s_pc = "idle"
    /\ IF file_mode = "closed"
       THEN /\ RaiseFromWrite("ValueError")
            /\ UNCHANGED << pos, events >>
       ELSE /\ pos' = Seek(pos, 0)
            /\ events' = Append(events, Ev("seek", << >>))
            /\ s_pc' = "stream_url"
            /\ UNCHANGED << s_exc, diagnostic >>
    /\ UNCHANGED << artwork_url, file_mode, file, stream_url, manifest, chunks, next >>

\* get_obj_from(prog_url) ends: lines 148-154 give the url of the answer, or None
\* when the answer is False, empty or without a url; then line 114 awaits
\* get_resource(stream_url), which raises TypeError at once for None
StreamUrlReturn ==
    /\ UNCHANGED << clientVars, discoveryVars >>
    /\ s_pc = "stream_url"
    /\ \/ /\ stream_url' = "url"
          /\ s_pc' = "manifest"
          /\ events' = Append(events, Ev("fetch_manifest", << >>))
          /\ UNCHANGED << s_exc, diagnostic >>
       \/ /\ stream_url' = None
          /\ RaiseFromWrite("TypeError")
          /\ events' = events
    /\ UNCHANGED << artwork_url, file_mode, file, pos, manifest, chunks, next >>

\* get_resource(stream_url) ends: the fetch raises, or lines 115-121 split the
\* manifest, keep the segment lines and await the first segment
ManifestReturn ==
    /\ UNCHANGED << clientVars, discoveryVars >>
    /\ s_pc = "manifest"
    /\ \/ /\ RaiseFromWrite("ClientError")
          /\ UNCHANGED << manifest, chunks, next, events, pos >>
       \/ \E lines \in SeqsUpTo(Lines, MaxLines) :
            /\ manifest' = lines
            /\ chunks' = SegmentLines(lines)
            /\ FetchSegment(SegmentLines(lines), 1, events, pos)
    /\ UNCHANGED << artwork_url, file_mode, file, stream_url >>

\* get_resource(chunk) ends: the fetch raises, or line 127 writes the bytes (a
\* TypeError on a text file, io.UnsupportedOperation, a ValueError, on a read-only
\* one) and the loop goes on to the next segment
SegmentReturn ==
    /\ UNCHANGED << clientVars, discoveryVars >>
    /\ s_pc = "segment"
    /\ \/ /\ RaiseFromWrite("ClientError")
          /\ UNCHANGED << file, pos, next, events >>
       \/ /\ file_mode = "w+"
          /\ RaiseFromWrite("TypeError")
          /\ UNCHANGED << file, pos, next, events >>
       \/ /\ file_mode = "rb"
          /\ RaiseFromWrite("ValueError")
          /\ UNCHANGED << file, pos, next, events >>
       \/ /\ file_mode = "wb+"
          /\ file' = WriteAt(file, pos, Body(chunks[next]))
          /\ FetchSegment(chunks, next + 1, Append(events, Ev("write", chunks[next])),
                          pos + Len(Body(chunks[next])))
    /\ UNCHANGED << artwork_url, file_mode, stream_url, manifest, chunks >>

\* get_resource(artwork) ends (lines 132-136): the fetch raises, or line 138 writes
\* the tags
ArtworkReturn ==
    /\ UNCHANGED << clientVars, discoveryVars >>
    /\ s_pc = "artwork"
    /\ \/ /\ RaiseFromWrite("ClientError")
          /\ events' = events
       \/ /\ s_pc' = "done"
          /\ events' = Append(events, Ev("write_track_id3", << >>))
          /\ UNCHANGED << s_exc, diagnostic >>
    /\ UNCHANGED << artwork_url, file_mode, file, pos, stream_url, manifest, chunks,
                    next >>

\* A track with or without artwork, and a file as the caller opened it: empty, at
\* position 0 ("wb+" truncates)
InitStream ==
    /\ client_id = Token
    /\ InitCoroutines
    /\ NoPlaylists
    /\ NoDiscovery
    /\ s_pc = "idle"
    /\ artwork_url \in BOOLEAN
    /\ file_mode \in FileModes
    /\ file = << >>
    /\ pos = 0
    /\ stream_url = NoValue
    /\ manifest = << >>
    /\ chunks = << >>
    /\ next = 0
    /\ events = << >>
    /\ s_exc = None
    /\ diagnostic = FALSE

NextStream ==
    \/ CallWriteMp3
    \/ StreamUrlReturn
    \/ ManifestReturn
    \/ SegmentReturn
    \/ ArtworkReturn

SpecStream == InitStream /\ [][NextStream]_vars

----------------------------------------------------------------------------
(* Properties of the batch lookup. *)

Distinct(s) == \A i, j \in DOMAIN s : s[i] = s[j] => i = j

Returned(t, o) == pc[t] = "returned" /\ op[t] = o

\* Every id asked for is in the answer of exactly one chunk task
EachIdInOneResponse(t) ==
    \A i \in Range(track_ids[t]) :
        Cardinality({k \in DOMAIN tasks[t] :
                        tasks[t][k].ok /\ i \in Range(IdsOf(tasks[t][k].items))}) = 1

\* C1 as stated: whenever every id of ids is returned by exactly one chunk response,
\* get_tracks(ids) returns a list as long as ids whose i-th element has id ids[i].
C1_OrderOfIds_AnyList ==
    \A t \in Tasks :
        Returned(t, "get_tracks") /\ EachIdInOneResponse(t)
            => IdsOf(ret[t].val) = track_ids[t]

\* C1, amended: for ids that are pairwise distinct and each returned by exactly one
\* chunk response, get_tracks(ids) returns a list as long as ids whose i-th element
\* has id ids[i], whatever the order in which the chunk tasks finished and the order
\* of the records inside each answer.
C1_OrderOfIds ==
    \A t \in Tasks :
        Returned(t, "get_tracks") /\ Distinct(track_ids[t]) /\ EachIdInOneResponse(t)
            => IdsOf(ret[t].val) = track_ids[t]

\* A call over two chunks whose second chunk finished first and whose answers,
\* chained, are not in the order of the ids
C1_Witness ==
    \E t \in Tasks :
        /\ Returned(t, "get_tracks") /\ Distinct(track_ids[t]) /\ EachIdInOneResponse(t)
        /\ Len(tasks[t]) = 2 /\ tasks[t][2].nth = 1
        /\ IdsOf(GatherItems(tasks[t])) # track_ids[t]
        /\ IdsOf(ret[t].val) = track_ids[t]

\* The chunk tasks of a get_tracks call: consecutive chunks of the ids, none empty,
\* none longer than the threshold, ceil(n / threshold) of them, one request each
ChunkingOfCall(t) ==
    /\ Len(tasks[t]) = CeilDiv(Len(track_ids[t]), RESOLVE_THRESHOLD)
    /\ \A k \in DOMAIN tasks[t] :
          Len(tasks[t][k].ids) >= 1 /\ Len(tasks[t][k].ids) <= RESOLVE_THRESHOLD
    /\ Flatten([k \in DOMAIN tasks[t] |-> tasks[t][k].ids]) = track_ids[t]
    /\ reqs[t] = Len(tasks[t])

\* The entries that carry no title
NumBare(trs) == Cardinality({k \in DOMAIN trs : ~trs[k].title})

\* The entries from the first one that carries no title to the last
NumFromFirstBare(trs) ==
    IF \A k \in DOMAIN trs : trs[k].title THEN 0
    ELSE Len(trs) + 1 - (CHOOSE k \in DOMAIN trs :
                            ~trs[k].title /\ \A j \in 1..(k-1) : trs[j].title)

C8_FailFast ==
    \A t \in Tasks :
        op[t] = "get_tracks" /\ (\E k \in DOMAIN tasks[t] : ~tasks[t][k].ok)
            => pc[t] # "returned" /\ ret[t] = NoReturn

\* A call that raised although another of its chunks had answered records
C8_Witness ==
    \E t \in Tasks :
        /\ op[t] = "get_tracks" /\ pc[t] = "raised" /\ exc[t] = "TypeError"
        /\ \E k \in DOMAIN tasks[t] : ~tasks[t][k].ok
        /\ \E k \in DOMAIN tasks[t] : tasks[t][k].ok /\ tasks[t][k].items # << >>

\* An id of the call that no chunk answer holds
Missing(t) ==
    {i \in Range(track_ids[t]) :
        \A k \in DOMAIN tasks[t] : i \notin Range(IdsOf(tasks[t][k].items))}

\* C9: when an id is missing from every answer, get_tracks raises or leaves the hole
\* out without misaligning: a list it returns, paired with ids by position, never
\* holds at a position an item whose id differs from the id at that position.
C9_NoSilentMisalignment ==
    \A t \in Tasks :
        Returned(t, "get_tracks") /\ Distinct(track_ids[t]) /\ Missing(t) # {}
            => \A i \in DOMAIN ret[t].val : ret[t].val[i].id = track_ids[t][i]

\* C10: clean_attributes on a playlist with bare-id entries and no client ends with
\* a ResolutionError: it does not return normally.
C10_AbortsWithoutClient ==
    \A t \in Tasks :
        /\ op[t] = "clean_attributes" /\ pc[t] \in {"returned", "raised"}
        /\ ~client[tpl[t]] /\ NumBare(declared[tpl[t]]) > 0
        => pc[t] = "raised" /\ exc[t] = "ResolutionError"

----------------------------------------------------------------------------
(* Properties of resolve. *)

\* The playlist a resolve of t returned
ResolvedPlaylist(t) ==
    Returned(t, "resolve") /\ catalog[t].kind \in {"playlist", "system-playlist"}

C4_SingleDiscovery ==
    (\A t \in Tasks : pc[t] # "raised") => discoveries <= 1

----------------------------------------------------------------------------
(* Properties of the completion. *)

\* A call of clean_attributes on playlist 0 has started (it runs, or it has ended)
Started == \E u \in Tasks : pc[u] # "idle"

\* C2: once a call of clean_attributes has started on a playlist, a later call, and a
\* call made while the first is suspended in its lookup, returns at once: it issues
\* no chunk request and no discovery, and leaves the entry sequence as it found it.
C2_Idempotent ==
    [][\A t \in Tasks :
          Started /\ pc[t] = "idle" /\ pc'[t] # "idle"
              => /\ pc'[t] = "returned"
                 /\ reqs' = reqs /\ tasks' = tasks /\ discoveries' = discoveries
                 /\ tracks' = tracks]_vars

\* A second call that returned at "if self.ready" while the first call is suspended
\* in its batch lookup
C2_Witness ==
    \E t, u \in Tasks :
        /\ pc[u] = "gather" /\ reqs[u] > 0
        /\ pc[t] = "returned" /\ found_ready[t] /\ reqs[t] = 0

----------------------------------------------------------------------------
(* Properties of the discovery. *)

\* C5: when the page embeds several script urls and the fetch of one fails, the
\* discovery still ends with the token whenever a script that was fetched holds it.
C5_ToleratesFailedScript ==
    /\ d_pc \in {"done", "raised"}
    /\ \E k \in DOMAIN results :
          results[k].state = "ok" /\ find_client_id(script_urls[k]) = Token
    => d_pc = "done" /\ d_ret = Token

----------------------------------------------------------------------------
(* Properties of the download. *)

NotComment(line) == line = << >> \/ line[1] # "#"

\* The urls of the events e of the log, in order
UrlsOf(evs, e) ==
    LET Test(x) == x.e = e
        sel == SelectSeq(evs, Test)
    IN  [k \in DOMAIN sel |-> sel[k].url]

\* C6: the file holds the bytes of the segments named by the lines of the manifest
\* that are no comment, in the order of the file, each written once: at every
\* moment the segments written are the first ones of those lines and at most one
\* more is fetched, after the loop all of them are written, and no line that starts
\* with "#" is fetched or written.
C6_SegmentsInOrder ==
    LET segs == SelectSeq(manifest, NotComment)
        written == UrlsOf(events, "write")
        fetched == UrlsOf(events, "fetch")
    IN  /\ Len(fetched) <= Len(segs) /\ fetched = SubSeq(segs, 1, Len(fetched))
        /\ Len(written) <= Len(fetched) /\ written = SubSeq(segs, 1, Len(written))
        /\ Len(fetched) <= Len(written) + 1
        /\ file = Flatten([k \in DOMAIN written |-> Body(written[k])])
        /\ s_pc \in {"artwork", "done"} => written = segs

\* A finished download of a manifest with a comment between two segment lines, one
\* of which holds the marker after its first character
C6_Witness ==
    /\ s_pc = "done"
    /\ Len(manifest) = 3 /\ ~NotComment(manifest[2])
    /\ manifest[1] = << "a", "#" >> /\ NotComment(manifest[3])
    /\ file = Body(manifest[1]) \o Body(manifest[3])

----------------------------------------------------------------------------
(* Properties of resolve: kinds and credentials. *)

\* The kinds resolve builds an object for (lines 72 and 75)
SupportedKinds == {"track", "playlist", "system-playlist"}

\* C11: a resolve whose catalog object has a kind that is neither track, playlist
\* nor system-playlist ends with an unsupported-kind error: it never returns.
C11_UnsupportedKindFails ==
    \A t \in Tasks :
        /\ op[t] = "resolve" /\ pc[t] \in {"returned", "raised"}
        /\ catalog[t].kind \notin SupportedKinds \cup {None}
        => pc[t] = "raised" /\ exc[t] = "UnsupportedKind"

\* C12: over the calls of resolve and get_tracks on one client, the discoveries that
\* found no token included, client_id is assigned at most once, and once the client
\* holds a credential no step starts a discovery or changes the value of client_id.
C12_CredentialWrittenOnce ==
    /\ [](writes <= 1)
    /\ [][client_id # None
            => client_id' = client_id /\ discoveries' = discoveries]_vars

----------------------------------------------------------------------------
(* Properties of the download: failures. *)

\* The events of the log that fetch the manifest or a segment
Fetches(evs) ==
    LET Test(x) == x.e \in {"fetch_manifest", "fetch"} IN SelectSeq(evs, Test)

\* C13: when the answer to the descriptor request is empty or has no url,
\* write_mp3_to ends with a StreamError ("no stream available"): no manifest and no
\* segment is fetched and nothing is written to the file.
C13_NoStreamIsStreamError ==
    stream_url = None
        => /\ s_pc = "raised" /\ s_exc = "StreamError"
           /\ Fetches(events) = << >>
           /\ file = << >>

----------------------------------------------------------------------------
(* Properties of get_credentials. *)

\* C14: when the discovery of a resolve or get_tracks call finds no token, the call
\* ends at that step with the RuntimeError of lines 57-61 (the public client id has
\* moved) and the client holds no credential; the step issues no catalog lookup and
\* the failed call issues none afterwards, nor returns a value.
C14_NoTokenIsFatal ==
    /\ [](\A t \in Tasks :
            exc[t] = "RuntimeError" => pc[t] = "raised" /\ ret[t] = NoReturn)
    /\ [][\A t \in Tasks :
            /\ /\ pc[t] \in {"credentials_get_tracks", "credentials_resolve"}
               /\ pc'[t] # pc[t] /\ writes' # writes /\ client_id' = None
               => /\ pc'[t] = "raised" /\ exc'[t] = "RuntimeError"
                  /\ reqs' = reqs /\ tasks' = tasks /\ catalog' = catalog
            /\ exc[t] = "RuntimeError"
               => /\ pc'[t] = pc[t] /\ reqs'[t] = reqs[t]
                  /\ tasks'[t] = tasks[t] /\ catalog'[t] = catalog[t]]_vars

\* A resolve and a get_tracks on one client, both failed for want of a token
C14_Witness ==
    \E t, u \in Tasks :
        /\ op[t] = "resolve" /\ op[u] = "get_tracks"
        /\ exc[t] = "RuntimeError" /\ exc[u] = "RuntimeError"
        /\ client_id = None /\ writes = 2

----------------------------------------------------------------------------
(* Properties of the completion: the entry sequence. *)

\* C15: in every state of a playlist, the states in which a clean_attributes call
\* is suspended in its lookup included, the ids of its entries are the ids the
\* catalog declared, in that order: no entry is removed, moved or doubled.
C15_EntriesKeepDeclaredOrder ==
    \A p \in Playlists : IdsOf(tracks[p]) = IdsOf(declared[p])

\* Playlist p holds every entry the catalog declared, each as a Track object
Complete(p) ==
    /\ Len(tracks[p]) = Len(declared[p])
    /\ \A k \in DOMAIN tracks[p] : IsMaterialized(tracks[p][k])

\* C16: when a clean_attributes call has ended with an exception raised by its
\* batch lookup, the playlist is not left ready with entries missing or bare (so
\* that a later call does the work again).
C16_FailedCompletionNotReady ==
    \A t \in Tasks :
        op[t] \in {"clean_attributes", "aiter"} /\ pc[t] = "raised"
            => ~(ready[tpl[t]] /\ ~Complete(tpl[t]))

----------------------------------------------------------------------------
(* Properties of the download: the diagnostic and the order of the steps. *)

\* C17: the message of line 140 about the mode of the file is printed only when
\* the file caused the failure: the file is not one opened "wb+", the descriptor
\* gave a stream url, and the exception is not one of the network.
C17_DiagnosticOnlyForSink ==
    diagnostic
        => file_mode # "wb+" /\ stream_url # None /\ s_exc # "ClientError"

IsPrefix(a, b) == Len(a) <= Len(b) /\ a = SubSeq(b, 1, Len(a))

\* The steps of a whole download of the segments segs, with artwork or without
StepsInOrder(segs, art) ==
    << Ev("seek", << >>), Ev("fetch_manifest", << >>) >>
        \o Flatten([k \in DOMAIN segs |-> << Ev("fetch", segs[k]), Ev("write", segs[k]) >>])
        \o << Ev("seek", << >>) >>
        \o (IF art THEN << Ev("fetch_artwork", << >>) >> ELSE << >>)
        \o << Ev("write_track_id3", << >>) >>

\* C18: the steps of write_mp3_to come in this order: the position is reset, the
\* segments are fetched and written one after the other (none is fetched before
\* the one before it is written), the position is reset again, the artwork is
\* fetched when the track has one, and then the tags are written; at that moment
\* the file holds all the segments and its position is 0.
C18_StepsInOrder ==
    LET segs == SelectSeq(manifest, NotComment)
    IN  /\ IsPrefix(events, StepsInOrder(segs, artwork_url))
        /\ s_pc = "done"
              => /\ events = StepsInOrder(segs, artwork_url)
                 /\ file = Flatten([k \in DOMAIN segs |-> Body(segs[k])])
                 /\ pos = 0

\* A finished download of two segments and the artwork
C18_Witness ==
    /\ s_pc = "done" /\ artwork_url
    /\ Len(chunks) = 2 /\ Len(file) > 0 /\ pos = 0
    /\ events[Len(events)] = Ev("write_track_id3", << >>)
    /\ events[Len(events) - 1] = Ev("fetch_artwork", << >>)

----------------------------------------------------------------------------
(* Properties of the discovery: the text searched. *)

\* C19: the text the discovery searches for the token is the concatenation of the
\* bodies of the scripts in the order in which the page listed their urls, in
\* whatever order the concurrent fetches finished.
C19_JoinInListedOrder ==
    d_pc = "done"
        => /\ script_text = Flatten(script_urls)
           /\ d_ret = find_client_id(Flatten(script_urls))

\* A discovery whose second script was fetched before the first, and that finds
\* the token across the two bodies in the listed order only
C19_Witness ==
    /\ d_pc = "done" /\ Len(results) = 2
    /\ results[2].nth = 1 /\ results[1].nth = 2
    /\ d_ret = Token
    /\ find_client_id(script_urls[2] \o script_urls[1]) = None

----------------------------------------------------------------------------
(* Properties of the completion: what a caller sees. *)

\* C20: whenever a clean_attributes call has returned, and whenever __aiter__ has
\* handed out the entries, the playlist holds every declared entry as a Track
\* object, also while another call on the playlist is suspended in its lookup
\* (stated for a playlist with a client, and lookups that answered every id).
C20_ReturnMeansComplete ==
    \A t \in Tasks :
        /\ op[t] \in {"clean_attributes", "aiter"} /\ pc[t] = "returned"
        /\ client[tpl[t]] /\ \A u \in Tasks : ~holes[u]
        => /\ Complete(tpl[t])
           /\ op[t] = "aiter" => ret[t].val = tracks[tpl[t]]

====
